---- MODULE Spec2Model ----
(***************************************************************************)
(* Model of the invite-only registration server of nostr-order-bridge     *)
(* (src/unnamed/part_001): the in-memory invite store and its snapshot,   *)
(* the admin endpoints, the register handler with its two suspension      *)
(* points (body parsing, the call to the listener) and the npub decoder.  *)
(*                                                                         *)
(* Strings the code takes apart (npub, wooUrl) are sequences of           *)
(* one-character strings; strings it only compares or copies are TLA+     *)
(* strings.                                                                *)
(***************************************************************************)
EXTENDS Integers, Sequences, FiniteSets, TLC

(***************************************************************************)
(* Bounds of the model.                                                    *)
(***************************************************************************)
\* number of register requests of a run
MaxReq == 2
\* largest value the clock (Date.now()) takes
MaxTime == 1
\* longest data part (after "npub1") of the enumerated identifiers
MaxDataLen == 13

(***************************************************************************)
(* The 32-bit integers of the JavaScript bit operators.  A value is kept   *)
(* as its two's complement bit pattern in two 16-bit halves, [hi, lo]:     *)
(* the pattern is hi * 2^16 + lo, and the sign bit is the top bit of hi.   *)
(***************************************************************************)
\* width of one half of a 32-bit integer
HalfWidth == 16

RECURSIVE Power2(_)
Power2(n) == IF n = 0 THEN 1 ELSE 2 * Power2(n - 1)

\* 2^n for n in 0..16, computed once
Pow2Table == [n \in 0..HalfWidth |-> Power2(n)]
Pow2(n) == Pow2Table[n]

\* 2^16
Half == Pow2(HalfWidth)

\* ToInt32 of a natural number below 2^31
ToInt32(v) == [hi |-> v \div Half, lo |-> v % Half]

\* the number a 32-bit integer with a clear sign bit stands for
ToNumber(a) == a.hi * Half + a.lo

RECURSIVE OrBits(_, _)
\* bitwise or of two naturals
OrBits(x, y) ==
  IF x = 0 THEN y
  ELSE IF y = 0 THEN x
  ELSE 2 * OrBits(x \div 2, y \div 2) + (IF (x % 2) + (y % 2) > 0 THEN 1 ELSE 0)

RECURSIVE AndBits(_, _)
\* bitwise and of two naturals
AndBits(x, y) ==
  IF x = 0 \/ y = 0 THEN 0
  ELSE 2 * AndBits(x \div 2, y \div 2) + (x % 2) * (y % 2)

\* a | b
BitOr(a, b) == [hi |-> OrBits(a.hi, b.hi), lo |-> OrBits(a.lo, b.lo)]
\* a & b
BitAnd(a, b) == [hi |-> AndBits(a.hi, b.hi), lo |-> AndBits(a.lo, b.lo)]
\* a << n for n < 16: the bits shifted out at the top are lost
ShiftLeft(a, n) ==
  [hi |-> ((a.hi * Pow2(n)) % Half) + ((a.lo * Pow2(n)) \div Half),
   lo |-> (a.lo * Pow2(n)) % Half]
\* a >> n for n < 16: the sign bit is copied into the vacated bits
ShiftRight(a, n) ==
  LET sign == a.hi \div Pow2(HalfWidth - 1)
  IN [hi |-> (a.hi \div Pow2(n)) + sign * (Pow2(n) - 1) * Pow2(HalfWidth - n),
      lo |-> (a.lo \div Pow2(n)) + (a.hi % Pow2(n)) * Pow2(HalfWidth - n)]

(***************************************************************************)
(* npubToHex                                                               *)
(***************************************************************************)
CHARSET ==
  << "q", "p", "z", "r", "y", "9", "x", "8", "g", "f", "2", "t", "v", "d",
     "w", "0", "s", "3", "j", "n", "5", "4", "k", "h", "c", "e", "6", "m",
     "u", "a", "7", "l" >>

NpubPrefix == << "n", "p", "u", "b", "1" >>

HexDigits ==
  << "0", "1", "2", "3", "4", "5", "6", "7", "8", "9",
     "a", "b", "c", "d", "e", "f" >>

\* only the letters of the prefix compared, its last character left out
startsWithLetters(s, p) ==
  Len(s) >= Len(p) - 1 /\ SubSeq(s, 1, Len(p) - 1) = SubSeq(p, 1, Len(p) - 1)

\* String.prototype.startsWith
startsWith(s, p) == Len(s) >= Len(p) /\ SubSeq(s, 1, Len(p)) = p

\* CHARSET.indexOf(c): zero-based index of the first occurrence, -1 if none
indexOf(c) ==
  IF \E i \in 1..Len(CHARSET) : CHARSET[i] = c
  THEN (CHOOSE i \in 1..Len(CHARSET) :
          CHARSET[i] = c /\ \A j \in 1..(i - 1) : CHARSET[j] # c) - 1
  ELSE -1

\* values.slice(0, -5): the footer taken one value too short
sliceChecksumFive(values) ==
  IF Len(values) <= 5 THEN << >> ELSE SubSeq(values, 1, Len(values) - 5)

\* the values taken whole, the footer not cut off
sliceChecksumNone(values) == values

\* values.slice(0, -6)
sliceChecksum(values) ==
  IF Len(values) <= 6 THEN << >> ELSE SubSeq(values, 1, Len(values) - 6)

\* b.toString(16).padStart(2, '0') for a byte
byteToHex(b) == << HexDigits[(b \div 16) + 1], HexDigits[(b % 16) + 1] >>

\* 0xff
ByteMask == ToInt32(255)

RECURSIVE emitBytes(_, _, _)
\* while (bits >= 8) { bits -= 8; bytes.push((acc >> bits) & 0xff); }
\* returns the final bit count and the bytes with the pushed ones appended
emitBytes(acc, bits, bytes) ==
  IF bits >= 8
  THEN emitBytes(acc, bits - 8,
                 Append(bytes,
                        ToNumber(BitAnd(ShiftRight(acc, bits - 8), ByteMask))))
  ELSE [bits |-> bits, bytes |-> bytes]

\* one pass of the loop body for the value v:
\* acc = (acc << 5) | v; bits += 5; while (bits >= 8) { ... }
regroupStep(st, v) ==
  LET acc == BitOr(ShiftLeft(st.acc, 5), ToInt32(v))
      e   == emitBytes(acc, st.bits + 5, st.bytes)
  IN [acc |-> acc, bits |-> e.bits, bytes |-> e.bytes]

RECURSIVE regroup(_, _, _, _)
\* for (const v of vals) { ... } over vals[lo..hi] in order, from the loop
\* state st = [acc, bits, bytes].  The range is walked as two halves, and the
\* test on the first half's result (the inner loop always leaves bits < 8)
\* makes the evaluation finish the first half before the second starts; both
\* only keep the evaluation shallow.
regroup(vals, lo, hi, st) ==
  IF lo > hi THEN st
  ELSE IF lo = hi THEN regroupStep(st, vals[lo])
  ELSE LET mid  == (lo + hi) \div 2
           left == regroup(vals, lo, mid, st)
       IN IF left.bits < 8 THEN regroup(vals, mid + 1, hi, left) ELSE left

\* bytes.map(b => b.toString(16).padStart(2, '0')).join('')
joinHex(bytes) ==
  [i \in 1..(2 * Len(bytes)) |-> byteToHex(bytes[(i + 1) \div 2])[2 - (i % 2)]]

\* npubToHex with the characters looked up after the checksum is cut off, so
\* that only the characters of the payload are tested
npubToHexPayloadOnly(npub) ==
  IF ~startsWith(npub, NpubPrefix)
  THEN [threw |-> FALSE, value |-> npub]
  ELSE LET data   == sliceChecksum(SubSeq(npub, 6, Len(npub)))
           values == [i \in 1..Len(data) |-> indexOf(data[i])]
       IN IF \E i \in 1..Len(values) : values[i] = -1
          THEN [threw |-> TRUE]
          ELSE [threw |-> FALSE,
                value |-> joinHex(regroup(values, 1, Len(values),
                                    [acc |-> ToInt32(0), bits |-> 0,
                                     bytes |-> << >>]).bytes)]

\* The result of npubToHex(npub): [threw |-> TRUE] when it throws
\* 'Invalid npub character', [threw |-> FALSE, value |-> string] otherwise.
npubToHex(npub) ==
  IF ~startsWith(npub, NpubPrefix)
  THEN [threw |-> FALSE, value |-> npub]
  ELSE LET data   == SubSeq(npub, 6, Len(npub))
           values == [i \in 1..Len(data) |-> indexOf(data[i])]
       IN IF \E i \in 1..Len(values) : values[i] = -1
          THEN [threw |-> TRUE]
          ELSE [threw |-> FALSE,
                value |-> LET vals == sliceChecksum(values)
                          IN joinHex(regroup(vals, 1, Len(vals),
                                       [acc |-> ToInt32(0), bits |-> 0,
                                        bytes |-> << >>]).bytes)]

(***************************************************************************)
(* Values of the model                                                     *)
(***************************************************************************)
\* values crypto.randomBytes(16).toString('hex') returns (32 hex digits each)
Tokens == {"a1", "b2"}

\* property names every plain object inherits: invites = {} is created by an
\* object literal, so invites["constructor"] is the function Object and
\* invites["__proto__"] is Object.prototype
ProtoKeys == {"constructor", "__proto__"}

\* a string that is neither a token nor an inherited property name
UnknownToken == "ffff"

\* LISTENER_TOKEN, the shared admin secret
LISTENER_TOKEN == "secret"

\* `Bearer ${LISTENER_TOKEN}`
BearerHeader == << "Bearer ", LISTENER_TOKEN >>

\* values of req.headers.authorization; << >> is the absent header
Headers ==
  { << >>, BearerHeader, << "Bearer ", "guess" >>, << LISTENER_TOKEN >> }

\* the request body on which JSON.parse throws
BadJSON == [invalidJSON |-> TRUE]

\* bodies of POST /api/invites
InviteBodies == { [label |-> "vip"], << >>, BadJSON }

\* the npub of the secp256k1 generator point (x = 79be667e...f81798)
GeneratorNpub ==
  << "n", "p", "u", "b", "1", "0", "x", "l", "x", "v", "l", "h", "e", "m",
     "j", "a", "6", "c", "4", "d", "q", "v", "2", "2", "u", "a", "p", "c",
     "t", "q", "u", "p", "f", "h", "l", "x", "m", "9", "h", "8", "z", "3",
     "k", "2", "e", "7", "2", "q", "4", "k", "9", "h", "c", "z", "7", "v",
     "q", "p", "k", "g", "e", "6", "d" >>

GeneratorHex ==
  << "7", "9", "b", "e", "6", "6", "7", "e", "f", "9", "d", "c", "b", "b",
     "a", "c", "5", "5", "a", "0", "6", "2", "9", "5", "c", "e", "8", "7",
     "0", "b", "0", "7", "0", "2", "9", "b", "f", "c", "d", "b", "2", "d",
     "c", "e", "2", "8", "d", "9", "5", "9", "f", "2", "8", "1", "5", "b",
     "1", "6", "f", "8", "1", "7", "9", "8" >>

\* an npub with a character outside the alphabet ("b")
BadCharNpub == NpubPrefix \o << "q", "b", "q", "q", "q", "q", "q", "q" >>

\* an npub whose payload is too short for a key
ShortNpub == NpubPrefix \o << "q", "q", "q", "q", "q", "q", "q", "q" >>

\* identifiers a register request presents
NpubInputs == { GeneratorNpub, BadCharNpub, ShortNpub }

\* storefront URLs a register request presents
WooUrls == { << "https://shop.example" >>, << "https://shop.example", "/" >> }

\* a register body with all four fields
FullBody(inv, npub, url, name) ==
  [invite |-> inv, npub |-> npub, wooUrl |-> url, storeName |-> name]

\* the function f without the field k
Without(f, k) == [x \in (DOMAIN f) \ {k} |-> f[x]]

\* a register body with valid fields and the invite "a1"
GoodBody == FullBody("a1", GeneratorNpub, << "https://shop.example" >>, "shop")

\* the body of POST /api/register with valid fields (the key as raw hex) and
\* the token "a1" as the invite: requests that present it meet on one record,
\* while the store may hold a record under "b2" as well
TokenBodies ==
  { [GoodBody EXCEPT !.npub = GeneratorHex] }

\* bodies of POST /api/register: for the token "a1" every single defect of a
\* field, and an invite string that is no token
RegisterBodies ==
  LET good == [GoodBody EXCEPT !.npub = GeneratorHex]
  IN   { [good EXCEPT !.invite = i] : i \in {"a1", UnknownToken} \cup ProtoKeys }
  \cup { [good EXCEPT !.wooUrl = u] : u \in WooUrls }
  \cup { [good EXCEPT !.npub = n] : n \in NpubInputs }
  \cup { Without(good, k) : k \in DOMAIN good }
  \cup { [good EXCEPT !.storeName = ""] }
  \cup { BadJSON }

\* a string of 64 characters that are no hexadecimal digits
NonHexKey == [i \in 1..64 |-> "z"]

\* bodies of POST /api/register in which the invite and the other fields vary
\* together: the token "a1" with valid fields (the key raw, prefixed, or 64
\* characters that are no digits), with an identifier that does not decode
\* to a key and with a field missing; an unknown invite, no invite and an
\* inherited property name, each with a field missing or an identifier that
\* does not decode
ValidateBodies ==
  LET good == [GoodBody EXCEPT !.npub = GeneratorHex]
  IN   { [good EXCEPT !.npub = n] :
           n \in {GeneratorHex, GeneratorNpub, NonHexKey, BadCharNpub, ShortNpub} }
  \cup { Without(good, "storeName"), Without(good, "npub") }
  \cup { Without([good EXCEPT !.invite = UnknownToken], "npub"),
         [good EXCEPT !.invite = UnknownToken, !.npub = BadCharNpub],
         Without(Without(good, "invite"), "storeName"),
         Without([good EXCEPT !.invite = "constructor"], "storeName") }

\* what the listener does with a call: answers 2xx with a JSON body, 2xx with
\* a body that is not JSON, or a non-2xx status (a failed connection makes
\* registerOnListener throw like a non-2xx status does)
ListenerOutcomes == {"ok", "okNotJson", "non2xx"}

\* how fs.writeFileSync ends: the file holds the new content, or the write
\* failed and the file is as before
WriteOutcomes == {"written", "failed"}

\* the same, and the write that fails after fs.writeFileSync has opened and
\* truncated the file: what is left of it does not parse
DiskOutcomes == WriteOutcomes \cup {"torn"}

\* crypto.randomBytes(32).toString('hex') as drawn by request r: 256 random
\* bits, distinct draws taken to differ
randomSecret(r) == << "secret", r >>

(***************************************************************************)
(* State                                                                   *)
(***************************************************************************)
VARIABLES
  invites,    \* the in-memory store: own properties of the object `invites`
  builtins,   \* own property `used` of Object ("constructor") and of
              \* Object.prototype ("__proto__")
  snapshot,   \* INVITES_FILE: [exists, intact, content]
  now,        \* the last value Date.now() returned
  reqs,       \* the register requests: position in the handler, body,
              \* response, and what the listener was sent and answered
  admin,      \* the exchange on an admin endpoint that the last step
              \* completed, if it was one: [req, resp]
  issued,     \* history: token -> label of every acknowledged create
  saveLog,    \* saveInvites so far: how its latest call ended ("none" before
              \* the first), and whether its console.error has ever run
  codecIn,    \* identifier handed to npubToHex on its own
  codecOut    \* result of that npubToHex

vars == << invites, builtins, snapshot, now, reqs, admin, issued, saveLog,
           codecIn, codecOut >>

\* responses (status and JSON body)
NoResponse == [status |-> 0]
Unauthorized == [status |-> 401, error |-> "Unauthorized"]
InvalidInvite == [status |-> 403, error |-> "Invalid or expired invite"]
InviteAlreadyUsed == [status |-> 403, error |-> "Invite already used"]
MissingField ==
  [status |-> 400, error |-> "Missing required fields: npub, wooUrl, storeName"]
InvalidNpubFormat == [status |-> 400, error |-> "Invalid npub format"]
WrongKeyLength ==
  [status |-> 400, error |-> "Invalid npub: decoded key is wrong length"]
InvalidJSON(status) == [status |-> status, error |-> "Invalid JSON"]
ListenerFailed(outcome) ==
  [status |-> 500,
   error |-> CASE outcome = "non2xx"    -> "Listener registration failed: 500 error"
               [] outcome = "okNotJson" -> "Unexpected token in JSON"]

\* the path the register handler appends to the storefront URL
WebhookPath == "/wp-json/woo-nostr-market/v1/order-webhook"

\* body.wooUrl.replace(/\/$/, '')
stripSlash(url) ==
  IF Len(url) > 0 /\ url[Len(url)] = "/" THEN SubSeq(url, 1, Len(url) - 1)
  ELSE url

\* JavaScript truthiness of body[f]: the field is present and not empty
Truthy(body, f) ==
  /\ f \in DOMAIN body
  /\ body[f] # (IF f \in {"npub", "wooUrl"} THEN << >> ELSE "")

\* no admin exchange
NoAdmin == [req |-> [op |-> "none", auth |-> << >>], resp |-> NoResponse]

\* a request that has not been sent
Unsent ==
  [pc |-> "unsent", body |-> << >>, resp |-> NoResponse, lookup |-> "none",
   startedUsed |-> FALSE, calls |-> 0, sent |-> << >>, answer |-> "none"]

\* contents of INVITES_FILE that a previous run of the server left behind
PriorSnapshots ==
  { [exists |-> FALSE, intact |-> TRUE, content |-> << >>],
    [exists |-> TRUE, intact |-> TRUE,
     content |-> [t \in {"a1"} |-> [label |-> "old", createdAt |-> 0, used |-> FALSE]]] }

\* the file never read
loadInvitesEmpty(file) == << >>

\* loadInvites: the store after start-up; a file that does not parse is
\* logged and the store stays empty
loadInvites(file) ==
  IF file.exists /\ file.intact THEN file.content ELSE << >>

\* the file written from the store as it was before the handler changed it
saveInvitesStale(store, outcome) ==
  CASE outcome = "written" -> [exists |-> TRUE, intact |-> TRUE, content |-> invites]
    [] outcome = "failed"  -> snapshot
    [] outcome = "torn"    -> [exists |-> TRUE, intact |-> FALSE, content |-> << >>]

\* saveInvites: fs.writeFileSync(INVITES_FILE, JSON.stringify(store)), errors
\* caught and logged
saveInvites(store, outcome) ==
  CASE outcome = "written" -> [exists |-> TRUE, intact |-> TRUE, content |-> store]
    [] outcome = "failed"  -> snapshot
    [] outcome = "torn"    -> [exists |-> TRUE, intact |-> FALSE, content |-> << >>]

\* saveLog after a call of saveInvites that ended with outcome: the catch
\* block logs every outcome but "written"
logSave(outcome) ==
  [last |-> outcome, failed |-> saveLog.failed \/ outcome # "written"]

\* npubToHex has not been called
NotDecoded == [done |-> FALSE]

\* the server after start-up: loadInvites() has run, no request has arrived
ServerInit ==
  /\ snapshot \in PriorSnapshots
  /\ invites = loadInvites(snapshot)
  /\ builtins = [k \in ProtoKeys |-> FALSE]
  /\ now = 0
  /\ reqs = [r \in 1..MaxReq |-> Unsent]
  /\ admin = NoAdmin
  /\ issued = << >>
  /\ saveLog = [last |-> "none", failed |-> FALSE]

Init ==
  /\ ServerInit
  /\ codecIn = << >>
  /\ codecOut = NotDecoded

(***************************************************************************)
(* The invite store as the handlers read and write it                      *)
(***************************************************************************)
\* what invites[k] evaluates to: an own record, an inherited built-in object,
\* or undefined
resolve(k) ==
  IF k \in DOMAIN invites THEN "record"
  ELSE IF k \in ProtoKeys THEN "builtin"
  ELSE "undefined"

\* the used flag never consulted
usedOfNever(k) == FALSE

\* invites[k].used for a k that resolves: a record's own flag; for a built-in
\* its own property or the one it inherits from Object.prototype
usedOf(k) ==
  IF k \in DOMAIN invites THEN invites[k].used
  ELSE builtins[k] \/ builtins["__proto__"]

\* crypto.randomBytes(16).toString('hex'): 128 random bits. A value that
\* repeats an earlier one has probability below 2^-100 and is taken not to
\* happen; the small set Tokens stands for the 2^128 values.
randomToken == Tokens \ DOMAIN invites

\* Date.now(): the clock does not run backwards
dateNow == { t \in now..(now + 1) : t <= MaxTime }

\* the store replaced by one that holds the new record alone
putInviteAlone(token, body, t) ==
  [k \in {token} |->
     [label |-> IF Truthy(body, "label") THEN body.label ELSE "",
      createdAt |-> t, used |-> FALSE]]

\* the record created without the label of the request
putInviteNoLabel(token, body, t) ==
  [k \in DOMAIN invites \cup {token} |->
     IF k = token THEN [label |-> "", createdAt |-> t, used |-> FALSE]
     ELSE invites[k]]

\* invites[token] = { label: body.label || '', createdAt: Date.now(), used: false }
putInvite(token, body, t) ==
  [k \in DOMAIN invites \cup {token} |->
     IF k = token
     THEN [label |-> IF Truthy(body, "label") THEN body.label ELSE "",
           createdAt |-> t, used |-> FALSE]
     ELSE invites[k]]

\* the record marked used without the usedAt stamp
markUsedNoStamp(k, storeName, t) ==
  [invites EXCEPT ![k] =
     [label |-> @.label, createdAt |-> @.createdAt,
      used |-> TRUE, usedBy |-> storeName]]

\* invites[k].used = true; .usedBy = body.storeName; .usedAt = Date.now()
\* on an own record
markUsed(k, storeName, t) ==
  [invites EXCEPT ![k] =
     [label |-> @.label, createdAt |-> @.createdAt,
      used |-> TRUE, usedBy |-> storeName, usedAt |-> t]]

(***************************************************************************)
(* POST /api/invites                                                       *)
(***************************************************************************)
\* only the presence of the header checked
authFailsWhenAbsent(auth) == auth = << >>

\* !auth || auth !== `Bearer ${LISTENER_TOKEN}`
authFails(auth) == auth = << >> \/ auth # BearerHeader

\* the create handler with a saveInvites that lets the error of the write
\* reach the catch of the handler (line 166)
CreateInviteSurfaced(auth, body, w) ==
  LET req == [op |-> "create", auth |-> auth]
  IN IF authFails(auth)
     THEN /\ admin' = [req |-> req, resp |-> Unauthorized]
          /\ UNCHANGED << invites, builtins, snapshot, now, reqs, issued,
                          saveLog, codecIn, codecOut >>
     ELSE IF body = BadJSON
     THEN /\ admin' = [req |-> req, resp |-> InvalidJSON(400)]
          /\ UNCHANGED << invites, builtins, snapshot, now, reqs, issued,
                          saveLog, codecIn, codecOut >>
     ELSE \E token \in randomToken, t \in dateNow :
          /\ invites' = putInvite(token, body, t)
          /\ snapshot' = saveInvites(invites', w)
          /\ saveLog' = logSave(w)
          /\ now' = t
          /\ admin' = [req |-> req,
                       resp |-> IF w # "written"
                                THEN [status |-> 400, error |-> "ENOSPC"]
                                ELSE [status |-> 200, success |-> TRUE, token |-> token,
                                      inviteUrl |-> << "https://nostr.bitcoinbutlers.com?invite=",
                                                       token >>]]
          /\ issued' = IF w # "written" THEN issued
                        ELSE [k \in DOMAIN issued \cup {token} |->
                                IF k = token
                                THEN (IF Truthy(body, "label") THEN body.label ELSE "")
                                ELSE issued[k]]
          /\ UNCHANGED << builtins, reqs, codecIn, codecOut >>

CreateInvite(auth, body, w) ==
  LET req == [op |-> "create", auth |-> auth]
  IN IF authFails(auth)
     THEN /\ admin' = [req |-> req, resp |-> Unauthorized]
          /\ UNCHANGED << invites, builtins, snapshot, now, reqs, issued,
                          saveLog, codecIn, codecOut >>
     ELSE IF body = BadJSON
     THEN /\ admin' = [req |-> req, resp |-> InvalidJSON(400)]
          /\ UNCHANGED << invites, builtins, snapshot, now, reqs, issued,
                          saveLog, codecIn, codecOut >>
     ELSE \E token \in randomToken, t \in dateNow :
          /\ invites' = putInvite(token, body, t)
          /\ snapshot' = saveInvites(invites', w)
          /\ saveLog' = logSave(w)
          /\ now' = t
          /\ admin' = [req |-> req,
                       resp |-> [status |-> 200, success |-> TRUE, token |-> token,
                                 inviteUrl |-> << "https://nostr.bitcoinbutlers.com?invite=",
                                                  token >>]]
          /\ issued' = [k \in DOMAIN issued \cup {token} |->
                          IF k = token
                          THEN (IF Truthy(body, "label") THEN body.label ELSE "")
                          ELSE issued[k]]
          /\ UNCHANGED << builtins, reqs, codecIn, codecOut >>

\* crypto.randomBytes(16).toString('hex') as the code uses it: any value,
\* a key of the store included, since line 155 assigns without a test
randomBytes == Tokens

\* POST /api/invites with the token drawn from randomBytes
CreateInviteDrawn(auth, body, w) ==
  LET req == [op |-> "create", auth |-> auth]
  IN IF authFails(auth)
     THEN /\ admin' = [req |-> req, resp |-> Unauthorized]
          /\ UNCHANGED << invites, builtins, snapshot, now, reqs, issued,
                          saveLog, codecIn, codecOut >>
     ELSE IF body = BadJSON
     THEN /\ admin' = [req |-> req, resp |-> InvalidJSON(400)]
          /\ UNCHANGED << invites, builtins, snapshot, now, reqs, issued,
                          saveLog, codecIn, codecOut >>
     ELSE \E token \in randomBytes, t \in dateNow :
          /\ invites' = putInvite(token, body, t)
          /\ snapshot' = saveInvites(invites', w)
          /\ saveLog' = logSave(w)
          /\ now' = t
          /\ admin' = [req |-> req,
                       resp |-> [status |-> 200, success |-> TRUE, token |-> token,
                                 inviteUrl |-> << "https://nostr.bitcoinbutlers.com?invite=",
                                                  token >>]]
          /\ issued' = [k \in DOMAIN issued \cup {token} |->
                          IF k = token
                          THEN (IF Truthy(body, "label") THEN body.label ELSE "")
                          ELSE issued[k]]
          /\ UNCHANGED << builtins, reqs, codecIn, codecOut >>

(***************************************************************************)
(* GET /api/invites                                                        *)
(***************************************************************************)
ListInvites(auth) ==
  /\ admin' = [req |-> [op |-> "list", auth |-> auth],
               resp |-> IF authFails(auth) THEN Unauthorized
                        ELSE [status |-> 200, invites |-> invites]]
  /\ UNCHANGED << invites, builtins, snapshot, now, reqs, issued,
                  saveLog, codecIn, codecOut >>

(***************************************************************************)
(* POST /api/register                                                      *)
(***************************************************************************)
\* The request arrives and the handler waits for its body (await parseBody).
\* Requests are numbered in the order they arrive.
RegArrive(r, body) ==
  /\ reqs[r].pc = "unsent"
  /\ \A q \in 1..(r - 1) : reqs[q].pc # "unsent"
  /\ reqs' = [reqs EXCEPT ![r] =
       [@ EXCEPT !.pc = "parsing", !.body = body,
                 !.startedUsed = /\ body # BadJSON
                                 /\ Truthy(body, "invite")
                                 /\ body.invite \in DOMAIN invites
                                 /\ invites[body.invite].used]]
  /\ admin' = NoAdmin
  /\ UNCHANGED << invites, builtins, snapshot, now, issued, saveLog,
                  codecIn, codecOut >>

\* body[f] for a string field: undefined when the body lacks it
Undefined == "<undefined>"
field(body, f) == IF f \in DOMAIN body THEN body[f] ELSE Undefined

\* the store name left out of the check
missingFieldsNoStoreName(body) ==
  ~Truthy(body, "npub") \/ ~Truthy(body, "wooUrl")

\* !body.npub || !body.wooUrl || !body.storeName
missingFields(body) ==
  ~Truthy(body, "npub") \/ ~Truthy(body, "wooUrl") \/ ~Truthy(body, "storeName")

\* the synchronous part of the handler with an error for the missing fields
\* that names the first field missing
validateNamesField(body, webhookSecret) ==
  IF body = BadJSON
    THEN [resp |-> InvalidJSON(500), lookup |-> "none"]
  ELSE IF ~Truthy(body, "invite") \/ resolve(body.invite) = "undefined"
    THEN [resp |-> InvalidInvite, lookup |-> "absent"]
  ELSE IF usedOf(body.invite)
    THEN [resp |-> InviteAlreadyUsed, lookup |-> "used"]
  ELSE IF missingFields(body)
    THEN [resp |-> [status |-> 400,
                    error |-> IF ~Truthy(body, "storeName") THEN "Missing field: storeName"
                              ELSE IF ~Truthy(body, "npub") THEN "Missing field: npub"
                              ELSE "Missing field: wooUrl"],
          lookup |-> "unused"]
  ELSE LET pubkeyHex == npubToHex(body.npub)
       IN IF pubkeyHex.threw
            THEN [resp |-> InvalidNpubFormat, lookup |-> "unused"]
          ELSE IF Len(pubkeyHex.value) # 64
            THEN [resp |-> WrongKeyLength, lookup |-> "unused"]
          ELSE [resp |-> NoResponse, lookup |-> "unused",
                sent |-> [pubkey |-> pubkeyHex.value,
                          name |-> field(body, "storeName"),
                          webhookUrl |-> Append(stripSlash(body.wooUrl), WebhookPath),
                          webhookSecret |-> webhookSecret]]

\* the synchronous part of the handler without the test of the length of
\* the decoded key
validateNoLength(body, webhookSecret) ==
  IF body = BadJSON
    THEN [resp |-> InvalidJSON(500), lookup |-> "none"]
  ELSE IF ~Truthy(body, "invite") \/ resolve(body.invite) = "undefined"
    THEN [resp |-> InvalidInvite, lookup |-> "absent"]
  ELSE IF usedOf(body.invite)
    THEN [resp |-> InviteAlreadyUsed, lookup |-> "used"]
  ELSE IF missingFields(body)
    THEN [resp |-> MissingField, lookup |-> "unused"]
  ELSE LET pubkeyHex == npubToHex(body.npub)
       IN IF pubkeyHex.threw
            THEN [resp |-> InvalidNpubFormat, lookup |-> "unused"]
          ELSE [resp |-> NoResponse, lookup |-> "unused",
                sent |-> [pubkey |-> pubkeyHex.value,
                          name |-> field(body, "storeName"),
                          webhookUrl |-> Append(stripSlash(body.wooUrl), WebhookPath),
                          webhookSecret |-> webhookSecret]]

\* the outcome of the synchronous part of the handler, from the parsed body to
\* the call to the listener: an error response, or the arguments of
\* registerOnListener
validate(body, webhookSecret) ==
  IF body = BadJSON
    THEN [resp |-> InvalidJSON(500), lookup |-> "none"]
  ELSE IF ~Truthy(body, "invite") \/ resolve(body.invite) = "undefined"
    THEN [resp |-> InvalidInvite, lookup |-> "absent"]
  ELSE IF usedOf(body.invite)
    THEN [resp |-> InviteAlreadyUsed, lookup |-> "used"]
  ELSE IF missingFields(body)
    THEN [resp |-> MissingField, lookup |-> "unused"]
  ELSE LET pubkeyHex == npubToHex(body.npub)
       IN IF pubkeyHex.threw
            THEN [resp |-> InvalidNpubFormat, lookup |-> "unused"]
          ELSE IF Len(pubkeyHex.value) # 64
            THEN [resp |-> WrongKeyLength, lookup |-> "unused"]
          ELSE [resp |-> NoResponse, lookup |-> "unused",
                sent |-> [pubkey |-> pubkeyHex.value,
                          name |-> field(body, "storeName"),
                          webhookUrl |-> Append(stripSlash(body.wooUrl), WebhookPath),
                          webhookSecret |-> webhookSecret]]

\* the handler without the try of line 182: the rejection of parseBody is
\* not caught and the request is never answered
RegValidateUncaught(r) ==
  /\ reqs[r].pc = "parsing"
  /\ LET v == validate(reqs[r].body, randomSecret(r))
     IN reqs' = [reqs EXCEPT ![r] =
            IF reqs[r].body = BadJSON
            THEN [@ EXCEPT !.pc = "dropped"]
            ELSE IF v.resp # NoResponse
            THEN [@ EXCEPT !.pc = "done", !.resp = v.resp, !.lookup = v.lookup]
            ELSE [@ EXCEPT !.pc = "calling", !.lookup = v.lookup,
                           !.calls = @ + 1, !.sent = v.sent]]
  /\ admin' = NoAdmin
  /\ UNCHANGED << invites, builtins, snapshot, now, issued, saveLog,
                  codecIn, codecOut >>

\* The body has arrived: the handler runs without interruption up to a
\* response or up to the fetch of registerOnListener, where it waits.
RegValidate(r) ==
  /\ reqs[r].pc = "parsing"
  /\ LET v == validate(reqs[r].body, randomSecret(r))
     IN reqs' = [reqs EXCEPT ![r] =
            IF v.resp # NoResponse
            THEN [@ EXCEPT !.pc = "done", !.resp = v.resp, !.lookup = v.lookup]
            ELSE [@ EXCEPT !.pc = "calling", !.lookup = v.lookup,
                           !.calls = @ + 1, !.sent = v.sent]]
  /\ admin' = NoAdmin
  /\ UNCHANGED << invites, builtins, snapshot, now, issued, saveLog,
                  codecIn, codecOut >>

\* the status of the listener's answer not checked
registerOnListenerIgnoresStatus(outcome) == [threw |-> FALSE]

\* registerOnListener from the listener's answer on: it throws unless the
\* status is 2xx and the body parses as JSON
registerOnListener(outcome) ==
  IF outcome = "ok" THEN [threw |-> FALSE]
  ELSE [threw |-> TRUE, resp |-> ListenerFailed(outcome)]

\* the invite marked used and saved whatever registerOnListener does
finishMarksFirst(r, outcome, t) ==
  LET k    == reqs[r].body.invite
      call == registerOnListener(outcome)
  IN [invites |-> IF k \in DOMAIN invites
                  THEN markUsed(k, reqs[r].body.storeName, t)
                  ELSE invites,
      builtins |-> IF k \in DOMAIN invites THEN builtins
                   ELSE [builtins EXCEPT ![k] = TRUE],
      saved |-> TRUE,
      resp |-> IF call.threw THEN call.resp
               ELSE [status |-> 200, success |-> TRUE,
                     webhookUrl |-> reqs[r].sent.webhookUrl,
                     webhookSecret |-> reqs[r].sent.webhookSecret]]

\* the credential kept in the record of the invite
finishStoresSecret(r, outcome, t) ==
  LET k    == reqs[r].body.invite
      call == registerOnListener(outcome)
  IN IF call.threw
     THEN [invites |-> invites, builtins |-> builtins, saved |-> FALSE,
           resp |-> call.resp]
     ELSE [invites |-> IF k \in DOMAIN invites
                       THEN [invites EXCEPT ![k] =
                               [label |-> @.label, createdAt |-> @.createdAt,
                                used |-> TRUE, usedBy |-> reqs[r].body.storeName,
                                usedAt |-> t,
                                webhookSecret |-> reqs[r].sent.webhookSecret]]
                       ELSE invites,
           builtins |-> IF k \in DOMAIN invites THEN builtins
                        ELSE [builtins EXCEPT ![k] = TRUE],
           saved |-> TRUE,
           resp |-> [status |-> 200, success |-> TRUE,
                     webhookUrl |-> reqs[r].sent.webhookUrl,
                     webhookSecret |-> reqs[r].sent.webhookSecret]]

\* the handler from `await registerOnListener(...)` to its response, for the
\* request r at the time t: the store, the built-in objects, whether
\* saveInvites runs, and the response
finish(r, outcome, t) ==
  LET k    == reqs[r].body.invite
      call == registerOnListener(outcome)
  IN IF call.threw
     THEN [invites |-> invites, builtins |-> builtins, saved |-> FALSE,
           resp |-> call.resp]
     ELSE [invites |-> IF k \in DOMAIN invites
                       THEN markUsed(k, reqs[r].body.storeName, t)
                       ELSE invites,
           builtins |-> IF k \in DOMAIN invites THEN builtins
                        ELSE [builtins EXCEPT ![k] = TRUE],
           saved |-> TRUE,
           resp |-> [status |-> 200, success |-> TRUE,
                     webhookUrl |-> reqs[r].sent.webhookUrl,
                     webhookSecret |-> reqs[r].sent.webhookSecret]]

\* the handler resuming with a saveInvites that lets the error of the write
\* reach the catch of the handler
RegResumeSurfaced(r, outcome, w) ==
  /\ reqs[r].pc = "calling"
  /\ \E t \in dateNow :
       LET f == finish(r, outcome, t)
       IN /\ invites' = f.invites
          /\ builtins' = f.builtins
          /\ snapshot' = IF f.saved THEN saveInvites(f.invites, w) ELSE snapshot
          /\ saveLog' = IF f.saved THEN logSave(w) ELSE saveLog
          /\ now' = IF f.saved THEN t ELSE now
          /\ reqs' = [reqs EXCEPT ![r] =
               [@ EXCEPT !.pc = "done", !.answer = outcome,
                         !.resp = IF f.saved /\ w # "written"
                                  THEN [status |-> 500, error |-> "ENOSPC"]
                                  ELSE f.resp]]
  /\ admin' = NoAdmin
  /\ UNCHANGED << issued, codecIn, codecOut >>

\* The listener has answered and the handler resumes: registerOnListener
\* returns or throws; on return the invite is marked used and saved and the
\* credential is returned.
RegResume(r, outcome, w) ==
  /\ reqs[r].pc = "calling"
  /\ \E t \in dateNow :
       LET f == finish(r, outcome, t)
       IN /\ invites' = f.invites
          /\ builtins' = f.builtins
          /\ snapshot' = IF f.saved THEN saveInvites(f.invites, w) ELSE snapshot
          /\ saveLog' = IF f.saved THEN logSave(w) ELSE saveLog
          /\ now' = IF f.saved THEN t ELSE now
          /\ reqs' = [reqs EXCEPT ![r] =
               [@ EXCEPT !.pc = "done", !.answer = outcome, !.resp = f.resp]]
  /\ admin' = NoAdmin
  /\ UNCHANGED << issued, codecIn, codecOut >>

(***************************************************************************)
(* Restart of the process                                                  *)
(***************************************************************************)
\* The process ends and is started again: `let invites = {}` and
\* loadInvites() run anew, Object and Object.prototype are fresh, and the
\* handlers that were waiting are gone with the old process. The file, the
\* clock and what was logged stay.
Restart ==
  /\ invites' = loadInvites(snapshot)
  /\ builtins' = [k \in ProtoKeys |-> FALSE]
  /\ reqs' = [r \in 1..MaxReq |->
               IF reqs[r].pc \in {"parsing", "calling"}
               THEN [reqs[r] EXCEPT !.pc = "dropped"]
               ELSE reqs[r]]
  /\ admin' = [req |-> [op |-> "restart", auth |-> << >>], resp |-> NoResponse]
  /\ UNCHANGED << snapshot, now, issued, saveLog, codecIn, codecOut >>

\* The server with its admin endpoints, and register requests with valid
\* fields that all present the token "a1"; the disk takes every write
Next ==
  \/ \E auth \in Headers, body \in InviteBodies : CreateInvite(auth, body, "written")
  \/ \E auth \in Headers : ListInvites(auth)
  \/ \E r \in 1..MaxReq, body \in TokenBodies : RegArrive(r, body)
  \/ \E r \in 1..MaxReq : RegValidate(r)
  \/ \E r \in 1..MaxReq, outcome \in ListenerOutcomes : RegResume(r, outcome, "written")

Spec == Init /\ [][Next]_vars

\* The register endpoint alone, under every kind of request body and with
\* writes that fail, on the store the server starts with
NextRegister ==
  \/ \E r \in 1..MaxReq, body \in RegisterBodies : RegArrive(r, body)
  \/ \E r \in 1..MaxReq : RegValidate(r)
  \/ \E r \in 1..MaxReq, outcome \in ListenerOutcomes, w \in WriteOutcomes :
       RegResume(r, outcome, w)

SpecRegister == Init /\ [][NextRegister]_vars

\* The register endpoint under bodies in which the invite and the other
\* fields vary together, on the store the server starts with; the listener
\* accepts every call and the disk takes every write
NextValidate ==
  \/ \E r \in 1..MaxReq, body \in ValidateBodies : RegArrive(r, body)
  \/ \E r \in 1..MaxReq : RegValidate(r)
  \/ \E r \in 1..MaxReq : RegResume(r, "ok", "written")

SpecValidate == Init /\ [][NextValidate]_vars

\* bodies of POST /api/invites of the runs with a failing disk
PersistBodies == { [label |-> "vip"], BadJSON }

\* what the listener does in those runs: it accepts or refuses
PersistOutcomes == { "ok", "non2xx" }

\* no register handler is waiting for a body or for the listener
NoneWaiting == \A q \in 1..MaxReq : reqs[q].pc \notin {"parsing", "calling"}

\* The store and its file: invites created and listed by the admin, register
\* requests with valid fields on the token "a1" that arrive one after the
\* other, writes of the file that succeed, fail or leave it torn, and
\* restarts of the process
NextPersist ==
  \/ \E body \in PersistBodies, w \in DiskOutcomes :
       CreateInvite(BearerHeader, body, w)
  \/ ListInvites(BearerHeader)
  \/ \E r \in 1..MaxReq, body \in TokenBodies : NoneWaiting /\ RegArrive(r, body)
  \/ \E r \in 1..MaxReq : RegValidate(r)
  \/ \E r \in 1..MaxReq, outcome \in PersistOutcomes, w \in DiskOutcomes :
       RegResume(r, outcome, w)
  \/ Restart

SpecPersist == Init /\ [][NextPersist]_vars

\* Creates whose token is any value randomBytes can return, next to register
\* requests with valid fields on the token "a1"; the listener accepts every
\* call and the disk takes every write
NextCollide ==
  \/ \E body \in PersistBodies : CreateInviteDrawn(BearerHeader, body, "written")
  \/ ListInvites(BearerHeader)
  \/ \E r \in 1..MaxReq, body \in TokenBodies : NoneWaiting /\ RegArrive(r, body)
  \/ \E r \in 1..MaxReq : RegValidate(r)
  \/ \E r \in 1..MaxReq : RegResume(r, "ok", "written")

SpecCollide == Init /\ [][NextCollide]_vars

\* bodies of register requests that end in each kind of response: valid
\* fields on the token "a1", a body that does not parse, an unknown invite, a
\* missing field and an identifier that does not decode
LiveBodies ==
  LET good == [GoodBody EXCEPT !.npub = GeneratorHex]
  IN TokenBodies
     \cup { BadJSON,
            [good EXCEPT !.invite = UnknownToken],
            Without(good, "storeName"),
            [good EXCEPT !.npub = BadCharNpub] }

\* The register endpoint with requests that interleave in every way, under
\* every answer of the listener and writes that fail
NextLive ==
  \/ \E r \in 1..MaxReq, body \in LiveBodies : RegArrive(r, body)
  \/ \E r \in 1..MaxReq : RegValidate(r)
  \/ \E r \in 1..MaxReq, outcome \in ListenerOutcomes, w \in WriteOutcomes :
       RegResume(r, outcome, w)

\* the body of every request that arrived is delivered to its end, so the
\* 'end' callback of parseBody runs and the handler goes on; the listener
\* answers every call, or the connection fails, so the await of line 218
\* ends and the handler goes on: the event loop runs a callback that is
\* ready
Fairness ==
  \A r \in 1..MaxReq :
    /\ WF_vars(RegValidate(r))
    /\ WF_vars(\E outcome \in ListenerOutcomes, w \in WriteOutcomes :
                 RegResume(r, outcome, w))

SpecLive == Init /\ [][NextLive]_vars /\ Fairness

(***************************************************************************)
(* npubToHex on its own, over enumerated identifiers                       *)
(***************************************************************************)
\* the characters of the enumerated identifiers: the values 0 and 31
CodecChars == {"q", "l"}

\* identifiers without the prefix "npub1": keys in raw hexadecimal (lower and
\* upper case), strings that are no key at all, and strings that carry only a
\* part of the prefix or the prefix in upper case
RawInputs ==
  { GeneratorHex,
    [i \in 1..64 |-> "F"],
    SubSeq(GeneratorHex, 1, 63),
    << >>,
    << "z", "z" >>,
    << "n", "p", "u", "b" >>,
    << "n", "p", "u", "b", "q", "q", "q", "q", "q", "q", "q", "q", "q" >>,
    << "N", "P", "U", "B", "1", "q", "q", "q", "q", "q", "q", "q", "q" >> }

\* characters that are not in CHARSET: "b", "i", "o" and "1" are left out of
\* the alphabet, upper case letters and other signs are foreign to it
ForeignChars == { "b", "1", "Q", "!" }

\* the generator's npub with the character at one position replaced by a
\* foreign one: the first and a middle position of the payload, and each of
\* the six positions of the checksum
BadCharInputs ==
  { [GeneratorNpub EXCEPT ![i] = c] :
      i \in {6, 30} \cup ((Len(GeneratorNpub) - 5)..Len(GeneratorNpub)),
      c \in ForeignChars }

\* the generator's npub with the six characters of its checksum replaced by
\* other characters of the alphabet: all of them, or the last one only
WrongChecksumInputs ==
  { [i \in 1..Len(GeneratorNpub) |->
       IF i > Len(GeneratorNpub) - 6 THEN c ELSE GeneratorNpub[i]] : c \in CodecChars }
  \cup { [GeneratorNpub EXCEPT ![Len(GeneratorNpub)] = c] : c \in CodecChars }

\* "npub1" followed by every string over CodecChars of up to MaxDataLen
\* characters, the generator's npub, and an npub with a foreign character
CodecInputs ==
       { NpubPrefix \o d : d \in UNION { [1..n -> CodecChars] : n \in 0..MaxDataLen } }
  \cup { GeneratorNpub, BadCharNpub }
  \cup RawInputs
  \cup BadCharInputs
  \cup WrongChecksumInputs

InitCodec ==
  /\ ServerInit
  /\ codecIn \in CodecInputs
  /\ codecOut = NotDecoded

Decode ==
  /\ ~codecOut.done
  /\ codecOut' = [done |-> TRUE, result |-> npubToHex(codecIn)]
  /\ UNCHANGED << invites, builtins, snapshot, now, reqs, admin, issued,
                  saveLog, codecIn >>

NextCodec == Decode

SpecCodec == InitCodec /\ [][NextCodec]_vars

(***************************************************************************)
(* Properties                                                              *)
(***************************************************************************)
Reqs == 1..MaxReq

\* the request r carries the invite string t
HasInvite(r, t) ==
  "invite" \in DOMAIN reqs[r].body /\ reqs[r].body.invite = t

\* the request r has been answered with the response resp
Answered(r, resp) == reqs[r].pc = "done" /\ reqs[r].resp = resp

\* the request r has been answered with success
Succeeded(r) == reqs[r].pc = "done" /\ reqs[r].resp.status = 200

\* the record is as a record of the store has to be
RecordOK(rec) ==
  IF rec.used
  THEN /\ {"usedBy", "usedAt"} \subseteq DOMAIN rec
       /\ rec.createdAt <= rec.usedAt
  ELSE DOMAIN rec \cap {"usedBy", "usedAt"} = {}

\* C1: of two register requests with valid fields on the same token of the
\* store, the listener acknowledging, at most one calls the listener, and
\* once both are answered exactly one has succeeded and the other received
\* InviteAlreadyUsed without a call to the listener.
C1_OneRegistrationPerInvite ==
  \A r1, r2 \in Reqs : \A t \in DOMAIN invites :
    ( /\ r1 # r2
      /\ HasInvite(r1, t) /\ HasInvite(r2, t)
      /\ reqs[r1].answer \in {"none", "ok"}
      /\ reqs[r2].answer \in {"none", "ok"} )
    => /\ reqs[r1].calls + reqs[r2].calls <= 1
       /\ (reqs[r1].pc = "done" /\ reqs[r2].pc = "done" /\ reqs[r1].calls = 1)
            => (Succeeded(r1) /\ Answered(r2, InviteAlreadyUsed))

\* C2: a record that is used stays in the store and stays used in every
\* step, and a register request that arrived when its token was used makes
\* no call to the listener and is answered InviteAlreadyUsed.
C2_ConsumedIsTerminal ==
  /\ [][\A t \in DOMAIN invites :
          invites[t].used => (t \in DOMAIN invites' /\ invites'[t].used)]_vars
  /\ [](\A r \in Reqs :
          reqs[r].startedUsed
            => /\ reqs[r].calls = 0
               /\ reqs[r].pc = "done" => reqs[r].resp = InviteAlreadyUsed)

\* C2 witness: a request succeeded on a token, and a request that arrived
\* afterwards with the same token has been answered InviteAlreadyUsed
C2_Witness ==
  \E r1, r2 \in Reqs : \E t \in Tokens :
    /\ HasInvite(r1, t) /\ HasInvite(r2, t)
    /\ Succeeded(r1)
    /\ reqs[r2].startedUsed /\ Answered(r2, InviteAlreadyUsed)

\* C3: a register request calls the listener or succeeds only if its invite
\* string is the key of a record of the store, and a request whose invite
\* string is no token at all is answered InvalidInvite.
C3_InviteGated ==
  \A r \in Reqs :
    /\ (reqs[r].calls > 0 \/ Succeeded(r))
         => reqs[r].body.invite \in DOMAIN invites
    /\ ( /\ reqs[r].pc = "done"
         /\ "invite" \in DOMAIN reqs[r].body
         /\ reqs[r].body.invite \notin Tokens )
         => reqs[r].resp = InvalidInvite

\* C4: a step that answers a create or list request whose Authorization
\* header is not exactly the bearer header answers Unauthorized (a response
\* without records) and changes neither the store nor the snapshot.
C4_UnauthorizedIsInert ==
  [][ ( /\ admin'.req.op \in {"create", "list"}
        /\ admin'.req.auth # BearerHeader )
      => /\ admin'.resp = Unauthorized
         /\ invites' = invites
         /\ snapshot' = snapshot
         /\ issued' = issued ]_vars

\* C4 witness: a create request with a wrong bearer token was answered
\* Unauthorized while the store holds a record
C4_Witness ==
  /\ admin.req.op = "create"
  /\ admin.req.auth = << "Bearer ", "guess" >>
  /\ admin.resp = Unauthorized
  /\ DOMAIN invites # {}

\* C5: a used record has a request on its token that the listener
\* acknowledged; no request calls the listener twice; a request whose call
\* failed is answered DownstreamRegistrationFailed after exactly one call and
\* the step that answers it leaves store and snapshot as they are; and
\* whenever a request with valid fields is validated while its token is an
\* unused record, it goes on to call the listener.
C5_MarkOnlyAfterAck ==
  /\ [](\A t \in DOMAIN invites :
          invites[t].used => \E r \in Reqs : HasInvite(r, t) /\ reqs[r].answer = "ok")
  /\ [](\A r \in Reqs :
          /\ reqs[r].calls <= 1
          /\ reqs[r].answer = "non2xx"
               => (Answered(r, ListenerFailed("non2xx")) /\ reqs[r].calls = 1))
  /\ [][\A r \in Reqs :
          (reqs[r].answer = "none" /\ reqs'[r].answer = "non2xx")
            => (invites' = invites /\ snapshot' = snapshot)]_vars
  /\ [][\A r \in Reqs : \A t \in DOMAIN invites :
          ( /\ reqs[r].pc = "parsing" /\ reqs'[r].pc # "parsing"
            /\ HasInvite(r, t) /\ ~invites[t].used
            /\ ~missingFields(reqs[r].body) )
            => (reqs'[r].pc = "calling" /\ reqs'[r].calls = 1)]_vars

\* C5 witness: the call of one request failed, the record stayed unused, and
\* another request with the same token went on to the listener and succeeded
C5_Witness ==
  \E r1, r2 \in Reqs : \E t \in Tokens :
    /\ HasInvite(r1, t) /\ HasInvite(r2, t)
    /\ reqs[r1].answer = "non2xx" /\ reqs[r1].calls = 1
    /\ reqs[r2].answer = "ok" /\ Succeeded(r2)
    /\ invites[t].used

\* C6: every step of a register request other than the one that answers it
\* with success leaves the store, the built-in objects and the snapshot
\* unchanged; in particular every step that answers with an error does.
C6_ErrorsLeaveStore ==
  [][\A r \in Reqs :
       (reqs'[r] # reqs[r] /\ reqs'[r].resp.status # 200)
         => (invites' = invites /\ snapshot' = snapshot /\ builtins' = builtins)]_vars

\* C6 witness: one request was refused by the listener and another was
\* answered with a validation error, and the token is still unused
C6_Witness ==
  \E r1, r2 \in Reqs :
    /\ HasInvite(r1, "a1") /\ Answered(r1, ListenerFailed("non2xx"))
    /\ HasInvite(r2, "a1") /\ Answered(r2, WrongKeyLength)
    /\ ~invites["a1"].used

\* C7: a register request that lacks npub, wooUrl or storeName never calls
\* the listener, and when its invite was an unused record at the lookup it
\* is answered MissingField.
C7_MissingFieldNoCall ==
  \A r \in Reqs :
    ( /\ "invite" \in DOMAIN reqs[r].body
      /\ \E f \in {"npub", "wooUrl", "storeName"} : ~Truthy(reqs[r].body, f) )
    => /\ reqs[r].calls = 0
       /\ reqs[r].sent = << >>
       /\ (reqs[r].pc = "done" /\ reqs[r].lookup = "unused")
            => reqs[r].resp = MissingField

\* C7 witness: a request on the unused token a1 without storeName was
\* answered MissingField
C7_Witness ==
  \E r \in Reqs :
    /\ HasInvite(r, "a1")
    /\ "storeName" \notin DOMAIN reqs[r].body
    /\ reqs[r].lookup = "unused"
    /\ Answered(r, MissingField)

\* C8: every record of the store and of the snapshot that is used has usedBy
\* and usedAt with createdAt <= usedAt, and every unused one has neither.
C8_RecordInvariant ==
  /\ \A t \in DOMAIN invites : RecordOK(invites[t])
  /\ \A t \in DOMAIN snapshot.content : RecordOK(snapshot.content[t])

\* C8 witness: a record created at time 1 has been used
C8_Witness ==
  \E t \in DOMAIN invites :
    invites[t].used /\ invites[t].createdAt = 1 /\ invites[t].usedBy = "shop"

\* C9: an authenticated list returns, for every token that a create has
\* returned, a record under that token with the label of that create, unused
\* unless a registration on the token has succeeded.
C9_ListRoundTrip ==
  (admin.req.op = "list" /\ admin.resp.status = 200)
    => \A t \in DOMAIN issued :
         /\ t \in DOMAIN admin.resp.invites
         /\ admin.resp.invites[t].label = issued[t]
         /\ (\A r \in Reqs : ~(HasInvite(r, t) /\ Succeeded(r)))
              => ~admin.resp.invites[t].used

\* C9 witness: a list returned two records, one of them created with the
\* label "vip" and still unused
C9_Witness ==
  /\ admin.req.op = "list" /\ admin.resp.status = 200
  /\ Cardinality(DOMAIN admin.resp.invites) = 2
  /\ \E t \in DOMAIN issued :
       issued[t] = "vip" /\ ~admin.resp.invites[t].used

\* the five-bit values of the characters after the prefix
DataValues(npub) ==
  [i \in 1..(Len(npub) - Len(NpubPrefix)) |-> indexOf(npub[i + Len(NpubPrefix)])]

\* bit j (from 0) of the five-bit values written one after the other, most
\* significant bit first
PayloadBit(payload, j) ==
  (payload[(j \div 5) + 1] \div Pow2(4 - (j % 5))) % 2

\* the hexadecimal digits of the bytes cut from that bit string: digit m is
\* the four bits from 4(m-1) on, and only whole bytes are kept
PayloadHex(payload) ==
  [m \in 1..(2 * ((5 * Len(payload)) \div 8)) |->
     HexDigits[ 8 * PayloadBit(payload, 4 * (m - 1))
              + 4 * PayloadBit(payload, 4 * (m - 1) + 1)
              + 2 * PayloadBit(payload, 4 * (m - 1) + 2)
              + PayloadBit(payload, 4 * (m - 1) + 3) + 1 ]]

\* C10: for a prefixed identifier whose characters are all in the alphabet,
\* npubToHex returns the hexadecimal digits of the bytes obtained by dropping
\* the last 6 values, writing the others as one bit string and keeping its
\* whole bytes; the generator's npub decodes to 79be667e...16f81798.
C10_DecodeRegroups ==
  codecOut.done =>
    /\ ( /\ startsWith(codecIn, NpubPrefix)
         /\ \A i \in 1..Len(codecIn) - Len(NpubPrefix) : DataValues(codecIn)[i] # -1 )
       => /\ ~codecOut.result.threw
          /\ LET values  == DataValues(codecIn)
                 payload == [i \in 1..(IF Len(values) > 6 THEN Len(values) - 6 ELSE 0)
                               |-> values[i]]
             IN /\ codecOut.result.value = PayloadHex(payload)
                /\ Len(codecOut.result.value) = 2 * ((5 * Len(payload)) \div 8)
    /\ codecIn = GeneratorNpub => codecOut.result.value = GeneratorHex

\* C10 witness: the generator's npub (52 values, 260 bits) has been decoded
C10_Witness ==
  /\ codecOut.done
  /\ codecIn = GeneratorNpub
  /\ ~codecOut.result.threw

\* the characters of a key in hexadecimal
HexChars ==
  { HexDigits[i] : i \in 1..Len(HexDigits) } \cup { "A", "B", "C", "D", "E", "F" }

\* a string of exactly 64 hexadecimal characters
IsHexKey(s) == Len(s) = 64 /\ \A i \in 1..Len(s) : s[i] \in HexChars

\* the first five characters of s are not "npub1"
LacksPrefix(s) ==
  Len(s) < Len(NpubPrefix) \/ \E i \in 1..Len(NpubPrefix) : s[i] # NpubPrefix[i]

\* C11: npubToHex returns its input unchanged, and does not throw, on every
\* string of 64 hexadecimal characters and on every string whose first five
\* characters are not "npub1".
C11_RawIsIdentity ==
  (codecOut.done /\ (IsHexKey(codecIn) \/ LacksPrefix(codecIn)))
    => /\ ~codecOut.result.threw
       /\ codecOut.result.value = codecIn

\* C11 witness: the generator's key in raw hexadecimal came back unchanged
C11_Witness ==
  /\ codecOut.done
  /\ codecIn = GeneratorHex
  /\ IsHexKey(codecIn)
  /\ codecOut.result = [threw |-> FALSE, value |-> GeneratorHex]

\* the step is the one in which the handler of request r resumes after the
\* listener acknowledged its call, up to its response
AckStep(r) ==
  reqs[r].pc = "calling" /\ reqs'[r].pc = "done" /\ reqs'[r].answer = "ok"

\* the success response of request r
Credential(r) ==
  [status |-> 200, success |-> TRUE,
   webhookUrl |-> reqs[r].sent.webhookUrl,
   webhookSecret |-> reqs[r].sent.webhookSecret]

\* C12 as stated: when the listener acknowledged the call of a register
\* request and the write of the file in the mark that follows fails, the
\* request is not answered with success.
C12_FailedMarkReported ==
  [][\A r \in Reqs :
       (AckStep(r) /\ saveLog'.last # "written") => reqs'[r].resp.status # 200]_vars

\* C12 amended: when the listener acknowledged the call of a register request
\* and the write of the file in the mark that follows fails, the failure is
\* logged and the request is still answered with success and its credential,
\* the invite being used in memory.
C12_FailedMarkStillSuccess ==
  [][\A r \in Reqs :
       (AckStep(r) /\ saveLog'.last # "written")
         => /\ reqs'[r].resp = Credential(r)
            /\ saveLog'.failed
            /\ invites'[reqs[r].body.invite].used]_vars

\* C12 witness: a request was answered with success although the write of its
\* mark failed: the file does not exist or holds the invite as unused
C12_Witness ==
  \E r \in Reqs :
    /\ Succeeded(r) /\ reqs[r].answer = "ok"
    /\ saveLog.last = "failed"
    /\ "a1" \in DOMAIN invites /\ invites["a1"].used
    /\ (snapshot.exists => ~snapshot.content["a1"].used)

\* the step is an authorized create that has stored a record
CreateStep ==
  /\ admin'.req.op = "create"
  /\ DOMAIN invites' # DOMAIN invites

\* the file does not hold the record of the store under t
NotOnDisk(t) ==
  ~snapshot.exists \/ ~snapshot.intact \/ t \notin DOMAIN snapshot.content
    \/ snapshot.content[t] # invites[t]

\* C13: a create whose write of the file fails is answered with success, the
\* token and the invite URL and nothing else, and the new record is in the
\* store; a mark whose write fails is answered with the credential and the
\* record is used in the store; from then on, up to a restart, the store
\* keeps every record and every used flag, a list returns the store, and a
\* register on a used record is answered InviteAlreadyUsed.
C13_WriteFailureSilent ==
  /\ [][(CreateStep /\ saveLog'.last # "written")
          => \E token \in DOMAIN invites' \ DOMAIN invites :
               /\ admin'.resp =
                    [status |-> 200, success |-> TRUE, token |-> token,
                     inviteUrl |-> << "https://nostr.bitcoinbutlers.com?invite=", token >>]
               /\ ~invites'[token].used
               /\ invites'[token].createdAt = now'
               /\ \A k \in DOMAIN invites : invites'[k] = invites[k]]_vars
  /\ [][\A r \in Reqs :
          (AckStep(r) /\ saveLog'.last # "written")
            => /\ reqs'[r].resp = Credential(r)
               /\ invites'[reqs[r].body.invite].used
               /\ invites'[reqs[r].body.invite].usedBy = reqs[r].body.storeName]_vars
  /\ [][admin'.req.op # "restart"
          => \A t \in DOMAIN invites :
               /\ t \in DOMAIN invites'
               /\ invites[t].used => invites'[t].used]_vars
  /\ []((admin.req.op = "list" /\ admin.resp.status = 200)
           => admin.resp.invites = invites)
  /\ [][\A r \in Reqs : \A t \in DOMAIN invites :
          ( /\ reqs[r].pc = "parsing" /\ reqs'[r].pc = "done"
            /\ HasInvite(r, t) /\ invites[t].used )
            => reqs'[r].resp = InviteAlreadyUsed]_vars

\* C13 witness: a list has returned a record that the file does not hold,
\* after a write of the file failed, and a register request on the invite
\* that is used in the store only has been answered InviteAlreadyUsed
C13_Witness ==
  /\ admin.req.op = "list" /\ admin.resp.status = 200
  /\ saveLog.failed
  /\ \E t \in DOMAIN admin.resp.invites : t \in DOMAIN issued /\ NotOnDisk(t)
  /\ "a1" \in DOMAIN invites /\ invites["a1"].used /\ NotOnDisk("a1")
  /\ \E r \in Reqs : Answered(r, InviteAlreadyUsed)

\* C14: the step in which a create or a register is answered with success,
\* its write of the file not failing, leaves the file holding exactly the
\* store with the new record or the mark; and whenever the latest write has
\* succeeded the file holds exactly the store, so no change of the store is
\* left unwritten.
C14_SnapshotBeforeResponse ==
  /\ [][ ( /\ saveLog'.last = "written"
            /\ \/ CreateStep /\ admin'.resp.status = 200
               \/ \E r \in Reqs : AckStep(r) /\ reqs'[r].resp.status = 200 )
          => snapshot' = [exists |-> TRUE, intact |-> TRUE, content |-> invites'] ]_vars
  /\ [](saveLog.last = "written"
          => (snapshot.exists /\ snapshot.intact /\ snapshot.content = invites))

\* C14 witness: a create has just been answered with success and the file
\* holds the store with the new record and a used one, after an earlier write
\* had failed
C14_Witness ==
  /\ admin.req.op = "create" /\ admin.resp.status = 200
  /\ saveLog.last = "written" /\ saveLog.failed
  /\ snapshot.content = invites
  /\ admin.resp.token \in DOMAIN snapshot.content
  /\ \E t \in DOMAIN snapshot.content : snapshot.content[t].used

\* C15 as stated: whatever restarts have taken place, every token whose
\* create was acknowledged is in the store, and the invite of every register
\* request that was answered with success is a used record of the store.
C15_AcknowledgedSurvive ==
  /\ \A t \in DOMAIN issued : t \in DOMAIN invites
  /\ \A r \in Reqs :
       Succeeded(r) => /\ reqs[r].body.invite \in DOMAIN invites
                       /\ invites[reqs[r].body.invite].used

\* C15 amended: a restart leaves the store equal to the content of the file,
\* and empty when the file is absent or does not parse; and as long as no
\* write of the file has failed, every token whose create was acknowledged
\* is in the store, the invite of every request answered with success is a
\* used record, and a request validated on such an invite is answered
\* InviteAlreadyUsed.
C15_RestartReloadsFile ==
  /\ [][admin'.req.op = "restart"
          => invites' = (IF snapshot.exists /\ snapshot.intact
                         THEN snapshot.content ELSE << >>)]_vars
  /\ [](~saveLog.failed => C15_AcknowledgedSurvive)
  /\ [][\A r, q \in Reqs :
          ( /\ ~saveLog.failed
            /\ reqs[r].pc = "parsing" /\ reqs'[r].pc = "done"
            /\ Succeeded(q) /\ reqs[q].body.invite = reqs[r].body.invite )
            => reqs'[r].resp = InviteAlreadyUsed]_vars

\* C15 witness: the process has just restarted, no write has failed, and the
\* store holds a record whose create was acknowledged and the used record of
\* a request that was answered with success
C15_Witness ==
  /\ admin.req.op = "restart"
  /\ ~saveLog.failed
  /\ \E t \in DOMAIN issued : t \in DOMAIN invites /\ invites[t].label = "vip"
  /\ \E r \in Reqs :
       /\ Succeeded(r)
       /\ reqs[r].body.invite \in DOMAIN invites
       /\ invites[reqs[r].body.invite].used

\* the fields of a record of the store
RecordFields == {"label", "createdAt", "used", "usedBy", "usedAt"}

\* every record of the store has fields of a record only, each with a value
\* that a create or a register request supplied or the clock gave
HoldsNoSecret(store) ==
  \A t \in DOMAIN store :
    /\ DOMAIN store[t] \subseteq RecordFields
    /\ store[t].label \in {"", "old", "vip"}
    /\ store[t].createdAt \in 0..MaxTime
    /\ store[t].used \in BOOLEAN
    /\ "usedAt" \in DOMAIN store[t] => store[t].usedAt \in 0..MaxTime
    /\ "usedBy" \in DOMAIN store[t]
         => \E r \in Reqs : HasInvite(r, t) /\ store[t].usedBy = reqs[r].body.storeName

\* C16: no record of the store, of the file or of a list response has a
\* field for the webhook secret or a field whose value is one; the secret of
\* a request is in what the request sent to the listener and in its success
\* response, and no other response has a webhookSecret.
C16_SecretNotKept ==
  /\ HoldsNoSecret(invites)
  /\ HoldsNoSecret(snapshot.content)
  /\ "invites" \in DOMAIN admin.resp => HoldsNoSecret(admin.resp.invites)
  /\ DOMAIN admin.resp \subseteq {"status", "error", "success", "token", "inviteUrl", "invites"}
  /\ \A r \in Reqs :
       /\ reqs[r].sent # << >> => reqs[r].sent.webhookSecret = randomSecret(r)
       /\ "webhookSecret" \in DOMAIN reqs[r].resp
            => /\ reqs[r].resp.status = 200
               /\ reqs[r].resp.webhookSecret = randomSecret(r)
               /\ reqs[r].answer = "ok"

\* C16 witness: a request was answered with its secret, the record of its
\* invite is used in the store and in the file, and a list has returned it
C16_Witness ==
  /\ admin.req.op = "list" /\ admin.resp.status = 200
  /\ \E r \in Reqs :
       /\ Succeeded(r)
       /\ reqs[r].resp.webhookSecret = randomSecret(r)
       /\ admin.resp.invites[reqs[r].body.invite].used
       /\ snapshot.content[reqs[r].body.invite].used

\* C17: a register request whose body has no invite, or an invite that is
\* not a key of the store, is answered InvalidInvite, and one that arrived
\* when the record of its invite was used is answered InviteAlreadyUsed,
\* whatever its other fields are, and neither calls the listener.
C17_InviteCheckedFirst ==
  \A r \in Reqs :
    (reqs[r].pc = "done" /\ reqs[r].body # BadJSON)
      => /\ ("invite" \notin DOMAIN reqs[r].body \/ reqs[r].body.invite \notin DOMAIN invites)
              => (reqs[r].resp = InvalidInvite /\ reqs[r].calls = 0)
         /\ reqs[r].startedUsed
              => (reqs[r].resp = InviteAlreadyUsed /\ reqs[r].calls = 0)

\* the first of store name, identifier and storefront URL that the body lacks
FirstMissing(body) ==
  IF ~Truthy(body, "storeName") THEN "storeName"
  ELSE IF ~Truthy(body, "npub") THEN "npub"
  ELSE IF ~Truthy(body, "wooUrl") THEN "wooUrl"
  ELSE "none"

\* the request r was answered with the error for missing fields: a 400 on a
\* body that lacks one (the identifier is looked at only when none is missing)
MissingAnswered(r) ==
  /\ reqs[r].pc = "done"
  /\ reqs[r].body # BadJSON
  /\ reqs[r].resp.status = 400
  /\ FirstMissing(reqs[r].body) # "none"

\* C18 as stated: two requests answered with the error for missing fields
\* whose first missing fields differ have received different errors.
C18_NamesFirstMissing ==
  \A r1, r2 \in Reqs :
    ( /\ MissingAnswered(r1) /\ MissingAnswered(r2)
      /\ FirstMissing(reqs[r1].body) # FirstMissing(reqs[r2].body) )
    => reqs[r1].resp # reqs[r2].resp

\* C18 amended: the error for missing fields is one fixed response, a 400
\* whose message lists npub, wooUrl and storeName, whichever field is the
\* first one missing.
C18_OneMissingFieldError ==
  \A r \in Reqs :
    MissingAnswered(r)
      => reqs[r].resp =
           [status |-> 400, error |-> "Missing required fields: npub, wooUrl, storeName"]

\* C18 witness: a request without store name and one without identifier, both
\* on the unused invite a1, have received the same error
C18_Witness ==
  \E r1, r2 \in Reqs :
    /\ MissingAnswered(r1) /\ MissingAnswered(r2)
    /\ HasInvite(r1, "a1") /\ HasInvite(r2, "a1")
    /\ FirstMissing(reqs[r1].body) = "storeName"
    /\ FirstMissing(reqs[r2].body) = "npub"
    /\ reqs[r1].resp = reqs[r2].resp

\* the register request r has passed the checks of its invite and of the
\* presence of its fields
ReachedDecode(r) ==
  /\ reqs[r].pc \in {"calling", "done"}
  /\ reqs[r].body # BadJSON
  /\ FirstMissing(reqs[r].body) = "none"
  /\ reqs[r].resp \notin {InvalidInvite, InviteAlreadyUsed}

\* the data part of a prefixed identifier has a character outside CHARSET
HasForeignChar(npub) ==
  \E i \in 1..(Len(npub) - Len(NpubPrefix)) : DataValues(npub)[i] = -1

\* the key an identifier stands for: a raw string of 64 characters as it is,
\* a prefixed one as the bytes of its values without the last six, when they
\* are 32; << >> when it stands for none
KeyOf(npub) ==
  IF LacksPrefix(npub)
  THEN (IF Len(npub) = 64 THEN npub ELSE << >>)
  ELSE IF HasForeignChar(npub) THEN << >>
  ELSE LET values  == DataValues(npub)
           payload == [i \in 1..(IF Len(values) > 6 THEN Len(values) - 6 ELSE 0)
                         |-> values[i]]
       IN IF (5 * Len(payload)) \div 8 = 32 THEN PayloadHex(payload) ELSE << >>

Alphabet == { CHARSET[i] : i \in 1..Len(CHARSET) }

\* the positions of s after the prefix that hold a character outside the
\* alphabet
ForeignPositions(s) ==
  { i \in (Len(NpubPrefix) + 1)..Len(s) : s[i] \notin Alphabet }

\* C20: npubToHex throws, and so returns no value at all, on every input
\* that starts with "npub1" and has a character outside the alphabet after
\* the prefix, wherever it stands, the last six positions included.
C20_ForeignCharThrows ==
  (codecOut.done /\ ~LacksPrefix(codecIn) /\ ForeignPositions(codecIn) # {})
    => /\ codecOut.result.threw
       /\ "value" \notin DOMAIN codecOut.result

\* C20 witness: the decoding threw on the generator's npub with its last
\* character, the last of the checksum, replaced by a foreign one
C20_Witness ==
  /\ codecOut.done
  /\ Len(codecIn) = Len(GeneratorNpub)
  /\ ForeignPositions(codecIn) = { Len(codecIn) }
  /\ ~LacksPrefix(codecIn)
  /\ codecOut.result = [threw |-> TRUE]

\* the identifier s with each of its last six characters after the prefix
\* replaced by c
withFooter(s, c) ==
  [i \in 1..Len(s) |->
     IF i > Len(NpubPrefix) /\ i > Len(s) - 6 THEN c ELSE s[i]]

\* identifiers that agree with s on every character but the last six after
\* the prefix: two identifiers that differ only there have the same ones
FooterVariants(s) == { withFooter(s, c) : c \in CodecChars }

\* C21: a prefixed identifier whose characters are all in the alphabet
\* decodes to the same key as every identifier that differs from it only
\* within the last six characters (all in the alphabet), and none of them
\* is refused by the decoding.
C21_ChecksumIgnored ==
  (codecOut.done /\ ~LacksPrefix(codecIn) /\ ForeignPositions(codecIn) = {})
    => /\ ~codecOut.result.threw
       /\ \A v \in FooterVariants(codecIn) : npubToHex(v) = codecOut.result

\* C21 witness: the generator's npub with a checksum of six "q", which is
\* not its checksum, decoded to the generator's key
C21_Witness ==
  /\ codecOut.done
  /\ codecIn = withFooter(GeneratorNpub, "q")
  /\ codecIn # GeneratorNpub
  /\ codecOut.result = [threw |-> FALSE, value |-> GeneratorHex]

\* C22: in every step every record of the store stays in the store with its
\* label and createdAt, and a record that is used stays exactly as it is
\* (usedBy and usedAt are written once).
C22_MutatedOnce ==
  [][\A t \in DOMAIN invites :
       /\ t \in DOMAIN invites'
       /\ invites'[t].label = invites[t].label
       /\ invites'[t].createdAt = invites[t].createdAt
       /\ invites[t].used => invites'[t] = invites[t]]_vars

\* the step is a create answered with success
CreatedStep == admin'.req.op = "create" /\ admin'.resp.status = 200

C24_AckMeansConsumed ==
  \A r \in Reqs :
    /\ (reqs[r].pc = "done" /\ reqs[r].answer \in {"ok", "okNotJson"})
         => /\ reqs[r].resp = Credential(r)
            /\ reqs[r].body.invite \in DOMAIN invites
            /\ invites[reqs[r].body.invite].used
    /\ (reqs[r].pc = "done" /\ reqs[r].calls = 1 /\ reqs[r].resp.status = 500)
         => reqs[r].answer = "non2xx"

\* the responses of the register endpoint
IsResponse(resp) ==
  \/ resp.status = 200 /\ DOMAIN resp = {"status", "success", "webhookUrl", "webhookSecret"}
  \/ resp.status \in {400, 403, 500} /\ DOMAIN resp = {"status", "error"}

\* C25: every register request that has arrived is eventually answered, with
\* success or with a status and an error message, whatever the other requests
\* do meanwhile; and a request that has been answered is never answered
\* again: nothing of it changes any more.
C25_AnsweredOnce ==
  /\ \A r \in Reqs :
       [](reqs[r].pc \in {"parsing", "calling"}
            => <>(reqs[r].pc = "done" /\ IsResponse(reqs[r].resp)))
  /\ [](\A r \in Reqs : reqs[r].pc = "done" => IsResponse(reqs[r].resp))
  /\ [][\A r \in Reqs : reqs[r].pc = "done" => reqs'[r] = reqs[r]]_vars

\* C25 witness: two requests on the same invite have both called the
\* listener and both are answered, one with success and one with the error of
\* the listener
C25_Witness ==
  \E r1, r2 \in Reqs :
    /\ r1 # r2
    /\ HasInvite(r1, "a1") /\ HasInvite(r2, "a1")
    /\ reqs[r1].calls = 1 /\ Succeeded(r1)
    /\ reqs[r2].calls = 1 /\ Answered(r2, ListenerFailed("non2xx"))

TypeOK ==
  /\ DOMAIN invites \subseteq Tokens
  /\ now \in 0..MaxTime
  /\ \A r \in 1..MaxReq :
       reqs[r].pc \in {"unsent", "parsing", "calling", "done", "dropped"}
  /\ saveLog.last \in {"none"} \cup DiskOutcomes
  /\ saveLog.failed \in BOOLEAN

====
